---- MODULE Spec2Model ----
(***************************************************************************)
(* The staged detection pipeline of build-info's Project class             *)
(* (src/unnamed/part_000): five memoized async accessors                   *)
(*   detectPackageManager <- detectWorkspaces <- detectBuildSystem         *)
(*                        <- detectFrameworks <- getBuildSettings          *)
(* Each accessor is an async function.  It runs synchronously up to its    *)
(* first `await`; every `await` is a suspension point after which the      *)
(* continuations of different calls are resumed in any order.  One action  *)
(* of the model is one such synchronous segment.                           *)
(*                                                                         *)
(* Every stored value is a sequence of strings, so that values of          *)
(* different stages can be compared: `undefined` and `null` are the        *)
(* sentinels Undefined and Null, a descriptor is a one-element sequence,   *)
(* a WorkspaceInfo is the sequence of its package paths.                   *)
(*                                                                         *)
(* Four further specifications look at one operation each:                 *)
(*   SpecBuildSystems  the detectors behind detectBuildSystem (buck.ts)    *)
(*   SpecRelevance     detectFrameworksInPath and filterByRelevance        *)
(*   SpecIntegrations  mergeIntegrations (config/src/integrations.ts)      *)
(*   SpecErrors        errorToJson and jsonToError (src/unnamed/part_001)  *)
(***************************************************************************)
EXTENDS Naturals, Sequences, FiniteSets

\* ---------------------------------------------------------------- bounds
MaxCalls == 2    \* accessor calls made on the Project
MaxMembers == 2  \* packages of the workspace
MaxFaults == 1   \* exceptions thrown by collaborators in one behaviour

\* ---------------------------------------------------------------- values
Undefined == <<"undefined">>
Null == <<"null">>
Pending == <<"pending">>      \* the promise of a call is not settled yet
Rejected == <<"rejected">>    \* the promise of a call was rejected

PM == "detectPackageManager"
WS == "detectWorkspaces"
BS == "detectBuildSystem"
FW == "detectFrameworks"
ST == "getBuildSettings"
StageOrder == <<PM, WS, BS, FW, ST>>
Stages == {PM, WS, BS, FW, ST}
Idx(s) == CHOOSE i \in 1..5 : StageOrder[i] = s

\* mutant: detectFrameworks awaits detectWorkspaces, not detectBuildSystem
DownstreamSkipsBuildSystem(s) == IF s = WS THEN FW ELSE StageOrder[Idx(s) + 1]

\* the accessor that calls and awaits accessor s (lines 199, 218, 242, 294)
Downstream(s) == StageOrder[Idx(s) + 1]

\* the event each stage emits (type Events, lines 20-27)
EventName(s) ==
  CASE s = PM -> "detectPackageManager"
    [] s = WS -> "detectWorkspaces"
    [] s = BS -> "detectBuildsystems"
    [] s = FW -> "detectFrameworks"
    [] s = ST -> "detectSettings"

Calls == 1..MaxCalls
NoMap == 0
RootPath == ""
AllMembers == <<"pkg-a", "pkg-b", "pkg-c", "pkg-d">>
Elems(seq) == {seq[i] : i \in 1..Len(seq)}

\* what the detectors find on disk: a framework marker in the root and in
\* pkg-a and pkg-b, none in the other packages
FrameworksAt(path) ==
  CASE path = RootPath -> <<"fw-root">>
    [] path = "pkg-a" -> <<"fw-a">>
    [] path = "pkg-b" -> <<"fw-b">>
    [] OTHER -> <<>>
BuildSystemsFound == <<"buck">>
SettingsFound == <<"settings">>

VARIABLES
  packageManager, workspace, buildSystems, settings,  \* fields, lines 41-49
  frameworks,     \* line 51: NoMap (undefined) or the Map object it refers to
  maps,           \* the Map objects: maps[c] is the Map call c created
  acc,            \* acc[c]: the accessor call c invoked
  frame,          \* frame[c]: the innermost accessor call c is executing
  pc,             \* pc[c]: where that accessor is suspended
  nested,         \* nested[c]: the awaited upstream promise was rejected
  ret,            \* ret[c]: what the promise of call c settled to
  pending,        \* per-package detectFrameworksInPath calls in flight
  joinFailed,     \* joinFailed[c]: a callback of call c's Promise.all rejected
  ran,            \* ran[c]: the stages whose detection logic call c started
  emitted,        \* emitted[c]: the events emitted by call c, in order
  threw,          \* threw[c]: what threw inside call c
  reported,       \* reported[c]: the stages of call c that called this.report, in order
  inFlightAtStart,\* inFlightAtStart[c]: calls unsettled when c was made
  setAtDone,      \* setAtDone[c]: c's stage field was set when c settled
  faults,         \* exceptions thrown so far
  pmFound, wsFound \* what package-manager and workspace detection find

\* the state of one detectBuildSystem detection (lines 220-230, buck.ts)
VARIABLES
  files,          \* the marker files on disk: <<directory, name>>
  root,           \* project.root, the directory the upward search stops at
  detects,        \* detects[i]: what detect() of the i-th registered detector settled to
  settled,        \* the detectors in the order their detect() settled
  bsPc,           \* "detecting", or "done" once detectBuildSystem has returned
  bsResult        \* what detectBuildSystem returned

projectVars == <<packageManager, workspace, buildSystems, settings, frameworks,
                 maps, acc, frame, pc, nested, ret, pending, joinFailed, ran,
                 emitted, threw, reported, inFlightAtStart, setAtDone, faults,
                 pmFound, wsFound>>
buildSystemVars == <<files, root, detects, settled, bsPc, bsResult>>

\* the state of one detectFrameworksInPath call (lines 267-282)
VARIABLES
  detected,       \* what detect() of each registered framework resolved to
  relevant,       \* what detectFrameworksInPath returned
  fwPc            \* "detecting", "done", or "failed" when a detector threw
relevanceVars == <<detected, relevant, fwPc>>

\* the state of one mergeIntegrations call (integrations.ts lines 16-80)
VARIABLES
  configIntegrations, apiIntegrations, context,  \* the arguments
  availableIntegrations,  \* what getAvailableIntegrations resolves to
  merged,         \* what mergeIntegrations resolved to
  mergePc         \* "called", "fetching", "done", or "rejected"
integrationVars == <<configIntegrations, apiIntegrations, context,
                     availableIntegrations, merged, mergePc>>

\* the state of one round trip of an error (part_001)
VARIABLES
  error,          \* the error given to errorToJson
  json,           \* what errorToJson returned
  rebuilt,        \* what jsonToError returned
  errPc           \* "thrown", "serialized", or "rebuilt"
errorVars == <<error, json, rebuilt, errPc>>

\* what the accessors of Project leave alone
aux == <<buildSystemVars, relevanceVars, integrationVars, errorVars>>

vars == <<projectVars, aux>>

\* ------------------------------------------------------------ Map objects
\* A JS Map keeps first-insertion order: a sequence of entries.
MapKeys(m) == {m[i].k : i \in 1..Len(m)}
MapSet(m, key, value) ==
  IF key \in MapKeys(m)
    THEN [i \in 1..Len(m) |-> IF m[i].k = key THEN [k |-> key, v |-> value] ELSE m[i]]
    ELSE Append(m, [k |-> key, v |-> value])

RECURSIVE Flat(_)
\* [...this.frameworks.values()].flat()  (lines 237, 260)
Flat(m) == IF m = <<>> THEN <<>> ELSE m[1].v \o Flat(Tail(m))

\* ------------------------------------------------------------- the fields
\* `this.<field> !== undefined`  (lines 179, 195, 214, 236, 287)
Cached(s) ==
  CASE s = PM -> packageManager # Undefined
    [] s = WS -> workspace # Undefined
    [] s = BS -> buildSystems # Undefined
    [] s = FW -> frameworks # NoMap
    [] s = ST -> settings # Undefined

\* the same test in the state an action leaves
CachedNext(s) ==
  CASE s = PM -> packageManager' # Undefined
    [] s = WS -> workspace' # Undefined
    [] s = BS -> buildSystems' # Undefined
    [] s = FW -> frameworks' # NoMap
    [] s = ST -> settings' # Undefined

\* what an accessor returns when its field is set (lines 180, 196, 215, 237, 288)
Stored(s) ==
  CASE s = PM -> packageManager
    [] s = WS -> workspace
    [] s = BS -> buildSystems
    [] s = FW -> Flat(maps[frameworks])
    [] s = ST -> settings

\* what the detection logic of a stage resolves to when it does not throw
Found(s) ==
  CASE s = PM -> pmFound
    [] s = WS -> wsFound
    [] s = BS -> BuildSystemsFound
    [] s = ST -> SettingsFound

\* -------------------------------------------------------- try and catch
\* mutant: detectWorkspaces has no try/catch
CatchesExceptWorkspaces(s) == s \in Stages \ {WS}

\* every accessor wraps its detection logic and its emit in try/catch
\* (lines 182-188, 201-208, 220-230, 240-264, 292-300)
Catches(s) == s \in Stages

\* the await of the upstream accessor is inside the try block only in
\* detectFrameworks (line 242) and getBuildSettings (line 294)
AwaitInTry(s) == s \in {FW, ST}

\* mutant: the catch block of detectBuildSystem does not report
ReportsExceptBuildSystem(s) == s \in {WS, FW, ST}

\* the catch blocks that call this.report (lines 206, 228, 262, 299);
\* detectPackageManager's does not (line 186)
Reports(s) == s \in {WS, BS, FW, ST}

\* what the catch block returns (lines 187, 207, 229, 263); getBuildSettings
\* returns this.settings after its catch block (line 301)
CatchReturn(s, settingsNow) ==
  CASE s = PM -> Null
    [] s = WS -> Null
    [] s = BS -> <<>>
    [] s = FW -> Null
    [] s = ST -> settingsNow

\* `if (this.workspace)`  (line 245)
Truthy(v) == v \notin {Undefined, Null}

\* mutant: detectWorkspaces assigns its result to this.packageManager
FieldOfUpstream(s) == IF s = WS THEN PM ELSE s

\* the field the detection step of a stage assigns: this.packageManager in
\* detectPackageManager (line 183), this.workspace in detectWorkspaces (line
\* 202), this.buildSystems in detectBuildSystem (line 221), this.settings in
\* getBuildSettings (line 296)
Field(s) == s

\* ---------------------------------------------------------------- Init
\* a Project after construction (lines 41-51, 53-72)
InitProject ==
  /\ packageManager = Undefined
  /\ workspace = Undefined
  /\ buildSystems = Undefined
  /\ settings = Undefined
  /\ frameworks = NoMap
  /\ maps = [c \in Calls |-> <<>>]
  /\ acc = [c \in Calls |-> "none"]
  /\ frame = [c \in Calls |-> "none"]
  /\ pc = [c \in Calls |-> "idle"]
  /\ nested = [c \in Calls |-> FALSE]
  /\ ret = [c \in Calls |-> Pending]
  /\ pending = {}
  /\ joinFailed = [c \in Calls |-> FALSE]
  /\ ran = [c \in Calls |-> {}]
  /\ emitted = [c \in Calls |-> <<>>]
  /\ threw = [c \in Calls |-> {}]
  /\ reported = [c \in Calls |-> <<>>]
  /\ inFlightAtStart = [c \in Calls |-> {}]
  /\ setAtDone = [c \in Calls |-> FALSE]
  /\ faults = 0
  /\ pmFound \in {Null, <<"npm">>}
  /\ wsFound \in {Null, SubSeq(AllMembers, 1, MaxMembers)}

\* no build-system detection is looked at
IdleBuildSystems ==
  /\ files = {}
  /\ root = 1
  /\ detects = <<>>
  /\ settled = <<>>
  /\ bsPc = "idle"
  /\ bsResult = <<>>

\* no detectFrameworksInPath call is looked at
IdleRelevance ==
  /\ detected = <<>>
  /\ relevant = <<>>
  /\ fwPc = "idle"

\* no mergeIntegrations call is looked at
IdleIntegrations ==
  /\ configIntegrations = <<>>
  /\ apiIntegrations = <<>>
  /\ context = "production"
  /\ availableIntegrations = <<>>
  /\ merged = <<>>
  /\ mergePc = "idle"

\* no error is looked at
IdleErrors ==
  /\ error = <<>>
  /\ json = <<>>
  /\ rebuilt = <<>>
  /\ errPc = "idle"

Init ==
  /\ InitProject
  /\ IdleBuildSystems /\ IdleRelevance /\ IdleIntegrations /\ IdleErrors

\* ------------------------------------------------- returning from a frame
\* The accessor s of call c returns v, or rejects.  If s is the accessor the
\* caller invoked, its promise settles; otherwise the accessor that awaits s
\* becomes runnable.
Settle(c, s, rejects, v) ==
  IF s = acc[c]
    THEN /\ pc' = [pc EXCEPT ![c] = "done"]
         /\ ret' = [ret EXCEPT ![c] = IF rejects THEN Rejected ELSE v]
         /\ setAtDone' = [setAtDone EXCEPT ![c] = CachedNext(s)]
         /\ UNCHANGED <<frame, nested>>
    ELSE /\ frame' = [frame EXCEPT ![c] = Downstream(s)]
         /\ pc' = [pc EXCEPT ![c] = "resume"]
         /\ nested' = [nested EXCEPT ![c] = rejects]
         /\ UNCHANGED <<ret, setAtDone>>

\* An exception reaches the end of the try block of accessor s in call c:
\* the catch block reports and returns the degraded value; without a catch
\* block the accessor rejects.
Throw(c, s) ==
  /\ reported' = [reported EXCEPT ![c] =
                    IF Catches(s) /\ Reports(s) THEN Append(@, s) ELSE @]
  /\ Settle(c, s, ~Catches(s), CatchReturn(s, settings'))

\* ------------------------------------------------------ calling an accessor
\* The synchronous start of accessor a (lines 176-183, 192-199, 212-218,
\* 234-242, 284-294): each accessor whose field is unset calls its upstream
\* accessor before its first await, down to the first accessor whose field is
\* set, or down to detectPackageManager, which starts its detection.
Call(c, a) ==
  /\ pc[c] = "idle"
  /\ \A d \in Calls : d < c => pc[d] # "idle"
  /\ acc' = [acc EXCEPT ![c] = a]
  /\ inFlightAtStart' =
       [inFlightAtStart EXCEPT ![c] = {d \in Calls : pc[d] \notin {"idle", "done"}}]
  /\ settings' = IF a = ST /\ ~Cached(ST) THEN <<>> ELSE settings
  /\ IF Cached(a)
       THEN /\ pc' = [pc EXCEPT ![c] = "done"]
            /\ ret' = [ret EXCEPT ![c] = Stored(a)]
            /\ setAtDone' = [setAtDone EXCEPT ![c] = TRUE]
            /\ frame' = [frame EXCEPT ![c] = a]
            /\ UNCHANGED ran
       ELSE LET below == {i \in 1..(Idx(a) - 1) : Cached(StageOrder[i])}
                top == CHOOSE i \in below : \A j \in below : j <= i
            IN  /\ IF below = {}
                     THEN /\ frame' = [frame EXCEPT ![c] = PM]
                          /\ pc' = [pc EXCEPT ![c] = "detect"]
                          /\ ran' = [ran EXCEPT ![c] = @ \cup {PM}]
                     ELSE /\ frame' = [frame EXCEPT ![c] = StageOrder[top + 1]]
                          /\ pc' = [pc EXCEPT ![c] = "resume"]
                          /\ UNCHANGED ran
                /\ UNCHANGED <<ret, setAtDone>>
  /\ UNCHANGED <<packageManager, workspace, buildSystems, frameworks, maps,
                 nested, pending, joinFailed, emitted, threw, reported, faults,
                 pmFound, wsFound, aux>>

detectPackageManager(c) == Call(c, PM)
detectWorkspaces(c) == Call(c, WS)
detectBuildSystem(c) == Call(c, BS)
detectFrameworks(c) == Call(c, FW)
getBuildSettings(c) == Call(c, ST)

\* ------------------------------------------- after the upstream accessor
\* detectWorkspaces, detectBuildSystem and getBuildSettings resume after
\* `await this.<upstream>()` and start their own detection (lines 202, 221,
\* 296) without testing their field again.
StartDetection(c) ==
  /\ pc[c] = "resume"
  /\ frame[c] \in {WS, BS, ST}
  /\ UNCHANGED <<packageManager, workspace, buildSystems, settings, frameworks,
                 maps, acc, pending, joinFailed, emitted, threw,
                 inFlightAtStart, faults, pmFound, wsFound, aux>>
  /\ IF nested[c]
       THEN /\ IF AwaitInTry(frame[c])
                 THEN Throw(c, frame[c])
                 ELSE /\ Settle(c, frame[c], TRUE, Rejected)
                      /\ UNCHANGED reported
            /\ UNCHANGED ran
       ELSE /\ pc' = [pc EXCEPT ![c] = "detect"]
            /\ ran' = [ran EXCEPT ![c] = @ \cup {frame[c]}]
            /\ UNCHANGED <<frame, nested, ret, setAtDone, reported>>

\* The detection logic of detectPackageManager, detectWorkspaces,
\* detectBuildSystem or getBuildSettings settles (lines 183-188, 202-208,
\* 221-230, 296-301).  If it resolves, the field is assigned and the event is
\* emitted; emit calls the listeners synchronously, so a listener that throws
\* throws out of emit.  Both exceptions end in the catch block.
DetectionSettles(c) ==
  /\ pc[c] = "detect"
  /\ \E detectionThrows, listenerThrows \in BOOLEAN :
       LET s == frame[c]
           failed == detectionThrows \/ listenerThrows
       IN  /\ ~(detectionThrows /\ listenerThrows)
           /\ failed => faults < MaxFaults
           /\ faults' = IF failed THEN faults + 1 ELSE faults
           /\ packageManager' =
                IF Field(s) = PM /\ ~detectionThrows THEN Found(s) ELSE packageManager
           /\ workspace' =
                IF Field(s) = WS /\ ~detectionThrows THEN Found(s) ELSE workspace
           /\ buildSystems' =
                IF Field(s) = BS /\ ~detectionThrows THEN Found(s) ELSE buildSystems
           /\ settings' =
                IF Field(s) = ST /\ ~detectionThrows THEN Found(s) ELSE settings
           /\ emitted' = [emitted EXCEPT ![c] =
                IF detectionThrows THEN @ ELSE Append(@, EventName(s))]
           /\ threw' = [threw EXCEPT ![c] =
                IF detectionThrows THEN @ \cup {s}
                ELSE IF listenerThrows THEN @ \cup {"emit"} ELSE @]
           /\ IF failed
                THEN Throw(c, s)
                ELSE /\ Settle(c, s, FALSE, Found(s))
                     /\ UNCHANGED reported
  /\ UNCHANGED <<frameworks, maps, acc, pending, joinFailed, ran,
                 inFlightAtStart, pmFound, wsFound, aux>>

\* --------------------------------------------------------- detectFrameworks
\* detectFrameworks resumes after `await this.detectBuildSystem()` (lines
\* 243-257): it replaces this.frameworks by a new Map and starts
\* detectFrameworksInPath for every package of the workspace, or for the root
\* when there is no workspace.  this.fs.join may throw in a callback: that
\* callback's promise is rejected and the other callbacks still run.
StartFrameworks(c) ==
  /\ pc[c] = "resume"
  /\ frame[c] = FW
  /\ UNCHANGED <<packageManager, workspace, buildSystems, settings, acc,
                 emitted, inFlightAtStart, pmFound, wsFound, aux>>
  /\ IF nested[c]
       THEN /\ Throw(c, FW)
            /\ UNCHANGED <<frameworks, maps, pending, joinFailed, ran, threw,
                           faults>>
       ELSE /\ frameworks' = c
            /\ maps' = [maps EXCEPT ![c] = <<>>]
            /\ ran' = [ran EXCEPT ![c] = @ \cup {FW}]
            /\ IF Truthy(workspace)
                 THEN \E joinThrows \in SUBSET Elems(workspace) :
                        /\ faults + Cardinality(joinThrows) <= MaxFaults
                        /\ faults' = faults + Cardinality(joinThrows)
                        /\ pending' = pending \cup
                             {<<c, pkg>> : pkg \in Elems(workspace) \ joinThrows}
                        /\ joinFailed' = [joinFailed EXCEPT ![c] = joinThrows # {}]
                        /\ threw' = [threw EXCEPT ![c] =
                             IF joinThrows # {} THEN @ \cup {"join"} ELSE @]
                        /\ pc' = [pc EXCEPT ![c] = "fanout"]
                 ELSE /\ pc' = [pc EXCEPT ![c] = "root"]
                      /\ UNCHANGED <<pending, joinFailed, threw, faults>>
            /\ UNCHANGED <<frame, nested, ret, setAtDone, reported>>

\* detectFrameworksInPath (lines 267-282): the matches of the path, or the
\* empty list when a detector throws.
detectFrameworksInPath(path, detectorThrows) ==
  IF detectorThrows THEN <<>> ELSE FrameworksAt(path)

\* One callback of the fan-out resumes (lines 250-251): the result is set in
\* the Map this.frameworks refers to at that moment.
PackageDetected(c, pkg) ==
  /\ <<c, pkg>> \in pending
  /\ \E detectorThrows \in BOOLEAN :
       /\ detectorThrows => faults < MaxFaults
       /\ faults' = IF detectorThrows THEN faults + 1 ELSE faults
       /\ threw' = [threw EXCEPT ![c] =
            IF detectorThrows THEN @ \cup {"detectFrameworksInPath"} ELSE @]
       /\ maps' = [maps EXCEPT ![frameworks] =
            MapSet(@, pkg, detectFrameworksInPath(pkg, detectorThrows))]
  /\ pending' = pending \ {<<c, pkg>>}
  /\ UNCHANGED <<packageManager, workspace, buildSystems, settings, frameworks,
                 acc, frame, pc, nested, ret, joinFailed, ran, emitted,
                 reported, inFlightAtStart, setAtDone, pmFound, wsFound, aux>>

\* The end of detectFrameworks, shared by both branches (lines 259-264): emit
\* with the Map this.frameworks refers to now and return its flattened values;
\* a listener that throws ends in the catch block.
EmitFrameworks(c, listenerThrows) ==
  /\ listenerThrows => faults < MaxFaults
  /\ emitted' = [emitted EXCEPT ![c] = Append(@, EventName(FW))]
  /\ IF listenerThrows
       THEN Throw(c, FW)
       ELSE /\ Settle(c, FW, FALSE, Flat(maps'[frameworks]))
            /\ UNCHANGED reported

\* Promise.all of the fan-out settles (lines 247-264): it rejects as soon as
\* one callback has rejected, and resolves when every callback has resolved.
FanOutSettles(c) ==
  /\ pc[c] = "fanout"
  /\ UNCHANGED <<packageManager, workspace, buildSystems, settings, frameworks,
                 maps, acc, pending, joinFailed, ran, inFlightAtStart,
                 pmFound, wsFound, aux>>
  /\ IF joinFailed[c]
       THEN /\ Throw(c, FW)
            /\ UNCHANGED <<emitted, threw, faults>>
       ELSE /\ \A pkg \in Elems(AllMembers) : <<c, pkg>> \notin pending
            /\ \E listenerThrows \in BOOLEAN :
                 /\ EmitFrameworks(c, listenerThrows)
                 /\ faults' = IF listenerThrows THEN faults + 1 ELSE faults
                 /\ threw' = [threw EXCEPT ![c] =
                      IF listenerThrows THEN @ \cup {"emit"} ELSE @]

\* The single detectFrameworksInPath of a project without workspace resumes
\* (lines 256-264).  `this.frameworks.set('', await ...)` evaluates
\* this.frameworks before the await, so the entry goes into the Map this call
\* created, whatever this.frameworks refers to by now.
RootDetected(c) ==
  /\ pc[c] = "root"
  /\ UNCHANGED <<packageManager, workspace, buildSystems, settings, frameworks,
                 acc, pending, joinFailed, ran, inFlightAtStart, pmFound,
                 wsFound, aux>>
  /\ \E detectorThrows, listenerThrows \in BOOLEAN :
       LET n == (IF detectorThrows THEN 1 ELSE 0) + (IF listenerThrows THEN 1 ELSE 0)
       IN  /\ faults + n <= MaxFaults
           /\ faults' = faults + n
           /\ maps' = [maps EXCEPT ![c] =
                MapSet(@, RootPath, detectFrameworksInPath(RootPath, detectorThrows))]
           /\ threw' = [threw EXCEPT ![c] =
                @ \cup (IF detectorThrows THEN {"detectFrameworksInPath"} ELSE {})
                  \cup (IF listenerThrows THEN {"emit"} ELSE {})]
           /\ EmitFrameworks(c, listenerThrows)

\* ---------------------------------------------------------------- Next
Next ==
  \/ \E c \in Calls : detectPackageManager(c)
  \/ \E c \in Calls : detectWorkspaces(c)
  \/ \E c \in Calls : detectBuildSystem(c)
  \/ \E c \in Calls : detectFrameworks(c)
  \/ \E c \in Calls : getBuildSettings(c)
  \/ \E c \in Calls : StartDetection(c)
  \/ \E c \in Calls : DetectionSettles(c)
  \/ \E c \in Calls : StartFrameworks(c)
  \/ \E c \in Calls, pkg \in Elems(AllMembers) : PackageDetected(c, pkg)
  \/ \E c \in Calls : FanOutSettles(c)
  \/ \E c \in Calls : RootDetected(c)

Spec == Init /\ [][Next]_vars

TypeOK ==
  /\ frameworks \in {NoMap} \cup Calls
  /\ faults \in 0..MaxFaults
  /\ \A c \in Calls : pc[c] \in {"idle", "detect", "resume", "fanout", "root", "done"}

\* ================================================================ claims
Done(c) == pc[c] = "done"
\* call c had settled before call d was made
SettledBefore(c, d) == c < d /\ pc[d] # "idle" /\ c \notin inFlightAtStart[d]
\* call d was made while call c was not settled
Overlap(c, d) == c \in inFlightAtStart[d]
\* how often the detection logic of stage s was executed
Runs(s) == Cardinality({c \in Calls : s \in ran[c]})
\* how often the event of stage s was emitted
Emits(s) == Cardinality({c \in Calls : EventName(s) \in Elems(emitted[c])})
\* the detection logic of the accessor that call c invoked threw; for
\* detectFrameworks that is the body of the accessor itself (the per-path
\* detectors degrade per path)
OwnLogicThrew(c) == acc[c] \in threw[c] \/ (acc[c] = FW /\ "join" \in threw[c])
\* the degraded result section 4.1 documents for a stage
DocumentedDegraded(s) == IF s \in {PM, WS} THEN Null ELSE <<>>
\* the paths detectFrameworks has to cover
ExpectedPaths == IF Truthy(workspace) THEN Elems(workspace) ELSE {RootPath}
PipelineEvents == <<EventName(PM), EventName(WS), EventName(BS), EventName(FW)>>
IsPrefix(a, b) == Len(a) <= Len(b) /\ a = SubSeq(b, 1, Len(a))

\* C1: once a call of an accessor has settled with the stage field no longer
\* unset, every later call of that accessor returns a value equal to the
\* first one, executes no detection logic and emits no event.
C1_LaterCallsReturnFirstResult ==
  \A c, d \in Calls :
    (SettledBefore(c, d) /\ acc[c] = acc[d] /\ setAtDone[c] /\ Done(d))
      => (ret[d] = ret[c] /\ ran[d] = {} /\ emitted[d] = <<>>)

\* C2: when two calls of the accessor of stage S are made before either has
\* settled, the detection logic of S runs once and its event is emitted once.
C2_ConcurrentFirstCallsDetectOnce ==
  \A c, d \in Calls :
    (Overlap(c, d) /\ acc[c] = acc[d])
      => (Runs(acc[c]) <= 1 /\ Emits(acc[c]) <= 1)

\* C3: a call of detectFrameworks or getBuildSettings made while another call
\* of the same accessor is in flight resolves to the result of that call.
C3_ConcurrentCallSharesResult ==
  \A c, d \in Calls :
    (Overlap(c, d) /\ acc[c] = acc[d] /\ acc[c] \in {FW, ST} /\ Done(c) /\ Done(d))
      => ret[d] = ret[c]

\* C4: detectFrameworks called first on a fresh Project, nothing throwing in
\* it, emits detectPackageManager, detectWorkspaces, detectBuildsystems,
\* detectFrameworks in this order, each once.
C4_EventOrder ==
  (acc[1] = FW /\ threw[1] = {})
    => /\ IsPrefix(emitted[1], PipelineEvents)
       /\ Done(1) => emitted[1] = PipelineEvents
C4_Witness ==
  acc[1] = FW /\ threw[1] = {} /\ Done(1) /\ emitted[1] = PipelineEvents

\* C5: no accessor call rejects, whichever detection logic throws.
C5_NeverRejects == \A c \in Calls : ret[c] # Rejected
C5_Witness ==
  \E c \in Calls :
    Done(c) /\ acc[c] = ST /\ threw[c] \cap Stages # {} /\ ret[c] # Rejected

\* C6: when the detection logic of a stage throws, its accessor returns null
\* (package manager, workspace) or the empty list (build systems, frameworks,
\* settings).
C6_DegradedValue ==
  \A c \in Calls :
    (Done(c) /\ OwnLogicThrew(c)) => ret[c] = DocumentedDegraded(acc[c])

\* C7: when the detection logic of a stage throws, the degraded result is
\* stored: after the accessor has returned the field is set, and a later call
\* returns the same value without executing the detection logic.
C7_DegradedResultStored ==
  \A c \in Calls :
    (Done(c) /\ OwnLogicThrew(c))
      => /\ Cached(acc[c])
         /\ \A d \in Calls :
              (SettledBefore(c, d) /\ acc[d] = acc[c] /\ Done(d))
                => (ret[d] = ret[c] /\ ran[d] = {})

\* C8: if build-system detection throws, detectBuildSystem resolves to the
\* empty list and leaves its field unset, exactly one error report is recorded
\* for the failure, and a detectFrameworks call that met the failure still runs
\* to completion: it creates the mapping, finishes every per-path detection,
\* emits detectFrameworks and resolves to the flattened list.
C8_FailureStep(c) ==
  (BS \notin threw[c] /\ BS \in threw'[c])
    => /\ reported'[c] = Append(reported[c], BS)
       /\ \A d \in Calls \ {c} : reported'[d] = reported[d]
       /\ buildSystems' = buildSystems
       /\ IF acc[c] = BS
            THEN Done(c)' /\ ret'[c] = <<>>
            ELSE pc'[c] = "resume" /\ frame'[c] = FW /\ ~nested'[c]
C8_Completed(c) ==
  (Done(c) /\ acc[c] = FW /\ threw[c] = {BS})
    => /\ reported[c] = <<BS>>
       /\ ret[c] \notin {Rejected, Null, Pending}
       /\ emitted[c] # <<>>
       /\ emitted[c][Len(emitted[c])] = EventName(FW)
       /\ EventName(BS) \notin Elems(emitted[c])
       /\ frameworks # NoMap
       /\ \A pkg \in Elems(AllMembers) : <<c, pkg>> \notin pending
C8_BuildSystemFailureIsolated ==
  [][\A c \in Calls : C8_FailureStep(c) /\ C8_Completed(c)']_vars
C8_Witness ==
  \E c \in Calls :
    /\ Done(c) /\ acc[c] = FW /\ threw[c] = {BS} /\ reported[c] = <<BS>>
    /\ EventName(FW) \in Elems(emitted[c])
    /\ MapKeys(maps[frameworks]) = ExpectedPaths

\* C9: every exception thrown inside the detection logic of a stage is
\* reported by that stage before the degraded result is returned.
C9_EveryFailureReported ==
  \A c \in Calls :
    Done(c) =>
      /\ \A s \in threw[c] \cap Stages : s \in Elems(reported[c])
      /\ (threw[c] \cap {"join", "detectFrameworksInPath"} # {})
           => FW \in Elems(reported[c])

\* C10: after detectFrameworks has completed, the mapping has exactly the
\* member paths of the workspace as keys, each once, or exactly the key ''
\* when there is no workspace.
C10_MappingCoversEveryPath ==
  (\E c \in Calls : Done(c) /\ acc[c] = FW)
    => /\ frameworks # NoMap
       /\ MapKeys(maps[frameworks]) = ExpectedPaths
       /\ Len(maps[frameworks]) = Cardinality(ExpectedPaths)

\* C11: the fan-out is merged in workspace member order: once a
\* detectFrameworks call has completed on a project with a workspace, the
\* keys of the frameworks mapping iterate in the order of the workspace
\* members (and so does the flattened list), whatever order the per-package
\* detections completed in.
Pos(seq, x) == IF x \in Elems(seq) THEN CHOOSE i \in 1..Len(seq) : seq[i] = x ELSE 0
InMemberOrder(m) ==
  \A i, j \in 1..Len(m) : i < j => Pos(workspace, m[i].k) < Pos(workspace, m[j].k)
C11_MergeFollowsMemberOrder ==
  \A c \in Calls :
    (Done(c) /\ acc[c] = FW /\ threw[c] = {} /\ Truthy(workspace)
       /\ frameworks = c /\ MapKeys(maps[c]) = Elems(workspace))
      => /\ InMemberOrder(maps[c])
         /\ ret[c] = Flat([i \in 1..Len(workspace) |->
                             [k |-> workspace[i], v |-> FrameworksAt(workspace[i])]])

\* C12: a listener that throws does not change the result: when the only
\* exception of a call is a listener's and no other call has run, the call
\* returns the value its accessor stored, which is what a later call returns.
C12_ListenerCannotChangeResult ==
  \A c \in Calls :
    (Done(c) /\ threw[c] = {"emit"} /\ \A d \in Calls \ {c} : pc[d] = "idle")
      => /\ Cached(acc[c])
         /\ ret[c] = Stored(acc[c])

\* C15: the settings compilation of getBuildSettings never starts while a
\* detectFrameworks call is still populating the frameworks mapping.
Populating == \E d \in Calls : pc[d] \in {"fanout", "root"}
C15_SettingsAfterFrameworks ==
  [][\A c \in Calls : (ST \notin ran[c] /\ ST \in ran'[c]) => ~Populating]_vars

\* C16: each stage-result field is written exactly once: once a field is set
\* no step changes it (for frameworks, neither the reference nor the content
\* of the Map it refers to).
C16_FieldsWrittenOnce ==
  [][/\ Cached(PM) => packageManager' = packageManager
     /\ Cached(WS) => workspace' = workspace
     /\ Cached(BS) => buildSystems' = buildSystems
     /\ Cached(ST) => settings' = settings
     /\ Cached(FW) => (frameworks' = frameworks
                        /\ maps'[frameworks] = maps[frameworks])]_vars

\* C17: the detection step of a stage leaves the stored results of every
\* other stage unchanged.
DetectionStep(c) ==
  \/ pc[c] = "detect" /\ (pc'[c] # "detect" \/ frame'[c] # frame[c])
  \/ pc[c] \in {"fanout", "root"} /\ pc'[c] # pc[c]
  \/ pc[c] = "resume" /\ frame[c] = FW /\ pc'[c] # "resume"
CallbackStep(c) ==
  \E pkg \in Elems(AllMembers) : <<c, pkg>> \in pending /\ <<c, pkg>> \notin pending'
OthersUnchanged(s) ==
  /\ s # PM => packageManager' = packageManager
  /\ s # WS => workspace' = workspace
  /\ s # BS => buildSystems' = buildSystems
  /\ s # ST => settings' = settings
  /\ s # FW => (frameworks' = frameworks /\ maps' = maps)
C17_NoStageMutatesAnother ==
  [][\A c \in Calls :
       /\ DetectionStep(c) => OthersUnchanged(frame[c])
       /\ CallbackStep(c) => OthersUnchanged(FW)]_vars
C17_Witness ==
  /\ packageManager = <<"npm">>
  /\ workspace = Null
  /\ buildSystems = BuildSystemsFound
  /\ frameworks # NoMap /\ MapKeys(maps[frameworks]) = {RootPath}
  /\ settings = SettingsFound
  /\ \E c \in Calls : Done(c) /\ ran[c] = Stages

\* C18: in every reachable state, a stage whose field is set has every
\* upstream field set.
C18_UpstreamSetFirst ==
  \A i, j \in 1..Len(StageOrder) :
    (i < j /\ Cached(StageOrder[j])) => Cached(StageOrder[i])

\* ======================================================= build systems
\* detectBuildSystem's detection in detail (lines 220-230): every registered
\* detector searches upwards from baseDirectory for its marker files, the
\* detectors settle in any order, Promise.all keeps the order of the registry
\* and .filter(Boolean) drops the detectors that found nothing.

MaxDepth == 3   \* directories from baseDirectory up to the filesystem root

\* DirPath[1] is project.baseDirectory, DirPath[d + 1] the parent of DirPath[d]
DirPath == <<"/a/b/c", "/a/b", "/a", "/">>
Dirs == 1..MaxDepth

\* the registered detectors, in registration order
BuildSystemRegistry == <<"buck", "tool">>

\* mutant: Buck looks for '.buckconfig' only
configFilesWithoutBUCK(id) ==
  CASE id = "buck" -> <<".buckconfig">>
    [] id = "tool" -> <<"tool.json">>

\* the marker files of a detector (buck.ts line 6)
configFiles(id) ==
  CASE id = "buck" -> <<".buckconfig", "BUCK">>
    [] id = "tool" -> <<"tool.json">>
Markers == {".buckconfig", "BUCK", "tool.json"}

\* fs.findUp(names, {cwd, stopAt}): the path of the first of `names` in the
\* nearest directory from cwd upwards that has one, not above stopAt
findUp(names, cwd, stopAt) ==
  LET hits == {d \in cwd..stopAt : \E n \in Elems(names) : <<d, n>> \in files}
  IN  IF hits = {} THEN Undefined
      ELSE LET d == CHOOSE x \in hits : \A y \in hits : x <= y
               i == CHOOSE x \in 1..Len(names) :
                      /\ <<d, names[x]>> \in files
                      /\ \A y \in 1..(x - 1) : <<d, names[y]>> \notin files
           IN  <<DirPath[d], names[i]>>

\* detect() of a detector (buck.ts lines 8-17): the detector itself when a
\* marker file is found, undefined otherwise
detect(id) ==
  LET config == findUp(configFiles(id), 1, root)
  IN  IF Truthy(config) THEN <<id>> ELSE Undefined

\* .filter(Boolean) of the detect() results, as the list of the ids kept
FilterBoolean(results) ==
  LET kept == SelectSeq(results, Truthy)
  IN  [i \in 1..Len(kept) |-> kept[i][1]]

besidesBuildSystems == <<projectVars, relevanceVars, integrationVars, errorVars>>

InitBuildSystems ==
  /\ InitProject /\ pmFound = Null /\ wsFound = Null
  /\ IdleRelevance /\ IdleIntegrations /\ IdleErrors
  /\ files \in SUBSET (Dirs \X Markers)
  /\ root \in Dirs
  /\ detects = [i \in 1..Len(BuildSystemRegistry) |-> Pending]
  /\ settled = <<>>
  /\ bsPc = "detecting"
  /\ bsResult = <<>>

\* detect() of the i-th detector settles: it resolves, or its search throws
DetectSettles(i) ==
  /\ detects[i] = Pending
  /\ \E searchThrows \in BOOLEAN :
       detects' = [detects EXCEPT ![i] =
                     IF searchThrows THEN Rejected ELSE detect(BuildSystemRegistry[i])]
  /\ settled' = Append(settled, i)
  /\ UNCHANGED <<files, root, bsPc, bsResult, besidesBuildSystems>>

\* Promise.all settles and detectBuildSystem returns (lines 221-229): it
\* rejects as soon as one detect() has rejected, and the catch block returns
\* []; otherwise it resolves when every detect() has resolved.
BuildSystemsDetected ==
  /\ bsPc = "detecting"
  /\ IF \E i \in DOMAIN detects : detects[i] = Rejected
       THEN bsResult' = <<>>
       ELSE /\ \A i \in DOMAIN detects : detects[i] # Pending
            /\ bsResult' = FilterBoolean(detects)
  /\ bsPc' = "done"
  /\ UNCHANGED <<files, root, detects, settled, besidesBuildSystems>>

NextBuildSystems ==
  \/ \E i \in 1..Len(BuildSystemRegistry) : DetectSettles(i)
  \/ BuildSystemsDetected

SpecBuildSystems == InitBuildSystems /\ [][NextBuildSystems]_vars

\* C13: when no detector's search throws, detectBuildSystem's result
\* contains a registered detector if and only if one of its marker files
\* (Buck: '.buckconfig' or 'BUCK') is in a directory from baseDirectory up to
\* root; a match does not exclude another, and the result is in registration
\* order whatever order the detectors settled in.
MarkerFound(id) ==
  \E d \in 1..root :
    \/ id = "buck" /\ (<<d, ".buckconfig">> \in files \/ <<d, "BUCK">> \in files)
    \/ id = "tool" /\ <<d, "tool.json">> \in files
NoSearchThrew == \A i \in DOMAIN detects : detects[i] # Rejected
FrameworkRegistry == <<"staticSiteGen", "genericBuildTool", "otherTool">>
Confidences == {"highest", "medium", "lowest"}
Categories == {"generator", "bundler"}

\* the order of the confidence levels (comment of lines 272-276)
Rank(confidence) ==
  CASE confidence = "highest" -> 3
    [] confidence = "medium" -> 2
    [] confidence = "lowest" -> 1

\* mutant: a higher-confidence match suppresses every lower one, whatever
\* its category
SuppressedWhateverCategory(m, matches) ==
  \E j \in 1..Len(matches) : Rank(matches[j][2]) > Rank(m[2])

\* a match is dropped when a match of the same category has a higher
\* confidence
Suppressed(m, matches) ==
  \E j \in 1..Len(matches) :
    matches[j][3] = m[3] /\ Rank(matches[j][2]) > Rank(m[2])

\* filterByRelevance(detected): the matches not suppressed, in the order given
filterByRelevance(matches) ==
  LET Kept(m) == ~Suppressed(m, matches)
  IN  SelectSeq(matches, Kept)

besidesRelevance == <<projectVars, buildSystemVars, integrationVars, errorVars>>

InitRelevance ==
  /\ InitProject /\ pmFound = Null /\ wsFound = Null
  /\ IdleBuildSystems /\ IdleIntegrations /\ IdleErrors
  /\ detected \in
       {d \in [1..Len(FrameworkRegistry) ->
                 {Undefined} \cup (Elems(FrameworkRegistry) \X Confidences \X Categories)] :
          \A i \in 1..Len(FrameworkRegistry) :
            d[i] = Undefined \/ d[i][1] = FrameworkRegistry[i]}
  /\ relevant = <<>>
  /\ fwPc = "detecting"

\* Promise.all of the detectors resolves and detectFrameworksInPath returns
\* (lines 269-278)
FrameworksInPathDetected ==
  /\ fwPc = "detecting"
  /\ relevant' = filterByRelevance(SelectSeq(detected, Truthy))
  /\ fwPc' = "done"
  /\ UNCHANGED <<detected, besidesRelevance>>

\* a detector throws: the catch block returns [] (lines 279-281)
FrameworksInPathFailed ==
  /\ fwPc = "detecting"
  /\ relevant' = <<>>
  /\ fwPc' = "failed"
  /\ UNCHANGED <<detected, besidesRelevance>>

NextRelevance == FrameworksInPathDetected \/ FrameworksInPathFailed

SpecRelevance == InitRelevance /\ [][NextRelevance]_vars

\* C14: of the matches of one path, the resolver drops exactly those that
\* have the category of a match of higher confidence, and returns the others
\* in registration order; {genericBuildTool, lowest} with {staticSiteGen,
\* highest} gives [staticSiteGen] when both are generators and
\* [staticSiteGen, genericBuildTool] when the categories differ.
Matches == SelectSeq(detected, Truthy)
Outranked(m) ==
  \E i \in 1..Len(Matches) :
    Matches[i][3] = m[3] /\ Rank(Matches[i][2]) > Rank(m[2])
RegistrationIndex(m) == CHOOSE i \in 1..Len(FrameworkRegistry) : FrameworkRegistry[i] = m[1]
MaxIntegrations == 2   \* integrations given in each list

Slugs == {"plugin-a", "plugin-b"}
DevValues == {"absent", "undefined", "object"}

\* the lists without repeated slug, or name, of at most MaxIntegrations entries
UniqueSlugLists ==
  UNION {{l \in [1..n -> Slugs] : \A i, j \in 1..n : i # j => l[i] # l[j]} :
           n \in 0..MaxIntegrations}
UniqueConfigLists ==
  UNION {{l \in [1..n -> [name : Slugs, dev : DevValues]] :
            \A i, j \in 1..n : i # j => l[i].name # l[j].name} :
           n \in 0..MaxIntegrations}

\* `'dev' in configIntegration`  (line 44)
HasDevProperty(c) == c.dev # "absent"
\* `typeof configIntegration.dev !== 'undefined'`  (line 32)
DevDefined(c) == c.dev = "object"
\* `configIntegration.dev` as a condition  (line 47)
DevTruthy(c) == c.dev = "object"

\* mutant: the API filter drops in every context
DroppedFromApiInAnyContext(slug, config, ctx) ==
  \E i \in 1..Len(config) : config[i].name = slug /\ DevDefined(config[i])

\* the predicate of the API filter, negated (lines 29-34)
DroppedFromApi(slug, config, ctx) ==
  \E i \in 1..Len(config) :
    config[i].name = slug /\ DevDefined(config[i]) /\ ctx = "dev"

\* resolvedApiIntegrations  (lines 27-35)
resolvedApiIntegrations(api, config, ctx) ==
  LET Keep(slug) == ~DroppedFromApi(slug, config, ctx)
      kept == SelectSeq(api, Keep)
  IN  [i \in 1..Len(kept) |-> [slug |-> kept[i], from |-> "api"]]

\* the predicate of the config filter (lines 43-44)
KeptFromConfig(c, api, ctx) ==
  \/ \A i \in 1..Len(api) : api[i] # c.name
  \/ HasDevProperty(c) /\ ctx = "dev"

\* the callback of map (lines 46-76); a result of undefined is [slug, from]
\* with from = "undefined"
ResolveConfig(c, available, ctx) ==
  IF DevTruthy(c) /\ ctx = "dev"
    THEN [slug |-> c.name, from |-> "dev"]
    ELSE IF c.name \in Elems(available)
           THEN [slug |-> c.name, from |-> "available"]
           ELSE [slug |-> c.name, from |-> "undefined"]

\* resolvedConfigIntegrations  (lines 39-77)
resolvedConfigIntegrations(api, config, available, ctx) ==
  LET Keep(c) == KeptFromConfig(c, api, ctx)
      kept == SelectSeq(config, Keep)
      mapped == [i \in 1..Len(kept) |-> ResolveConfig(kept[i], available, ctx)]
      Defined(e) == e.from # "undefined"
  IN  SelectSeq(mapped, Defined)

besidesIntegrations == <<projectVars, buildSystemVars, relevanceVars, errorVars>>

InitIntegrations ==
  /\ InitProject /\ pmFound = Null /\ wsFound = Null
  /\ IdleBuildSystems /\ IdleRelevance /\ IdleErrors
  /\ apiIntegrations \in UniqueSlugLists
  /\ configIntegrations \in UniqueConfigLists
  /\ context \in {"dev", "production"}
  /\ availableIntegrations = <<>>
  /\ merged = <<>>
  /\ mergePc = "fetching"

\* getAvailableIntegrations resolves and mergeIntegrations returns
\* (lines 24-79)
mergeIntegrations ==
  /\ mergePc = "fetching"
  /\ \E available \in UniqueSlugLists :
       /\ availableIntegrations' = available
       /\ merged' =
            resolvedApiIntegrations(apiIntegrations, configIntegrations, context)
              \o resolvedConfigIntegrations(apiIntegrations, configIntegrations,
                                            available, context)
  /\ mergePc' = "done"
  /\ UNCHANGED <<configIntegrations, apiIntegrations, context, besidesIntegrations>>

\* getAvailableIntegrations rejects: so does mergeIntegrations (line 24)
CatalogFetchFails ==
  /\ mergePc = "fetching"
  /\ mergePc' = "rejected"
  /\ UNCHANGED <<configIntegrations, apiIntegrations, context,
                 availableIntegrations, merged, besidesIntegrations>>

NextIntegrations == mergeIntegrations \/ CatalogFetchFails

SpecIntegrations == InitIntegrations /\ [][NextIntegrations]_vars

\* C19: mergeIntegrations returns the kept API integrations in input order,
\* then the kept config integrations in input order; an API integration is
\* dropped exactly when a config integration of that name has a defined dev
\* property and the context is 'dev'; no slug is in the result twice.
FromApi(e) == e.from = "api"
FromConfig(e) == e.from # "api"
SlugsOf(entries) == [i \in 1..Len(entries) |-> entries[i].slug]
NamesOf(config) == [i \in 1..Len(config) |-> config[i].name]
InOrderOf(part, whole) ==
  /\ Elems(part) \subseteq Elems(whole)
  /\ \A i, j \in 1..Len(part) : i < j => Pos(whole, part[i]) < Pos(whole, part[j])
C19_Order ==
  /\ merged = SelectSeq(merged, FromApi) \o SelectSeq(merged, FromConfig)
  /\ InOrderOf(SlugsOf(SelectSeq(merged, FromApi)), apiIntegrations)
  /\ InOrderOf(SlugsOf(SelectSeq(merged, FromConfig)), NamesOf(configIntegrations))
C19_DropRule ==
  \A slug \in Elems(apiIntegrations) :
    (slug \notin Elems(SlugsOf(SelectSeq(merged, FromApi))))
      <=> (context = "dev" /\ \E c \in Elems(configIntegrations) :
                                 c.name = slug /\ c.dev = "object")
C19_UniqueSlugs ==
  \A i, j \in 1..Len(merged) : i # j => merged[i].slug # merged[j].slug
C19_MergeIntegrations ==
  mergePc = "done" => (C19_Order /\ C19_DropRule /\ C19_UniqueSlugs)

\* =============================================================== errors
\* errorToJson and jsonToError (part_001).  An object is the sequence of its
\* own properties [key, value, enumerable], in creation order.  A value is a
\* string, undefined, or one of three kinds of object: a plain object of JSON
\* data, an object that refers to itself, and a Date.

PlainObject == <<"{ plain }">>
Circular == <<"{ self: <itself> }">>
DateValue == <<"Date">>
StaticValues == {<<"E_CODE">>, PlainObject, Circular, DateValue}

\* `const { CUSTOM_ERROR_KEY } = require('./info')`  (line 5)
CUSTOM_ERROR_KEY == "customErrorInfo"

\* mutant: stack is not assigned to the new error
ERROR_PROPS_WithoutStack == <<"name", "message">>

\* line 29
ERROR_PROPS == <<"name", "message", "stack">>

Own(obj, key) == \E i \in 1..Len(obj) : obj[i].key = key
\* obj[key] of a plain object
GetOwn(obj, key) ==
  IF Own(obj, key)
    THEN obj[CHOOSE i \in 1..Len(obj) : obj[i].key = key].value
    ELSE Undefined
\* error[key]: name and message are inherited from Error.prototype when the
\* error has no own property
Get(obj, key) ==
  IF Own(obj, key) THEN GetOwn(obj, key)
  ELSE IF key = "name" THEN <<"Error">>
  ELSE IF key = "message" THEN <<"">>
  ELSE Undefined

\* Object.defineProperty(obj, key, {value, enumerable, writable: true,
\* configurable: true})  (line 34)
DefineProperty(obj, key, value, enumerable) ==
  LET p == [key |-> key, value |-> value, enumerable |-> enumerable]
  IN  IF Own(obj, key)
        THEN [i \in 1..Len(obj) |-> IF obj[i].key = key THEN p ELSE obj[i]]
        ELSE Append(obj, p)

\* obj[key] = value: an existing property keeps its attributes
SetProperty(obj, key, value) ==
  IF Own(obj, key)
    THEN [i \in 1..Len(obj) |->
            IF obj[i].key = key THEN [obj[i] EXCEPT !.value = value] ELSE obj[i]]
    ELSE Append(obj, [key |-> key, value |-> value, enumerable |-> TRUE])

RECURSIVE Assign(_, _)
\* Object.assign(target, source), and the spread of source into a literal:
\* the own enumerable properties of source are set on target  (lines 17, 41-44)
Assign(target, source) ==
  IF source = <<>> THEN target
  ELSE Assign(IF source[1].enumerable
                THEN SetProperty(target, source[1].key, source[1].value)
                ELSE target,
              Tail(source))

\* `...errorProps` of a destructuring pattern: the own enumerable properties
\* not named in the pattern  (lines 9, 40)
Rest(obj, named) ==
  LET Copied(p) == p.enumerable /\ p.key \notin named
  IN  SelectSeq(obj, Copied)

\* what safeJsonStringify.ensureProperties makes of a value: a reference to
\* an object already visited becomes '[Circular]', an object with toJSON
\* becomes what toJSON returns  (lines 42-43)
Visit(value) ==
  CASE value = Circular -> <<"{ self: '[Circular]' }">>
    [] value = DateValue -> <<"2020-01-01T00:00:00.000Z">>
    [] OTHER -> value

\* safeJsonStringify.ensureProperties(obj): a new object with the enumerable
\* properties of obj, every value visited  (lines 42-43)
ensureProperties(obj) ==
  LET Enumerable(p) == p.enumerable
      keys == SelectSeq(obj, Enumerable)
  IN  [i \in 1..Len(keys) |-> [keys[i] EXCEPT !.value = Visit(@)]]

\* an object literal of the given keys and values
Literal(keys, values) ==
  [i \in 1..Len(keys) |-> [key |-> keys[i], value |-> values[i], enumerable |-> TRUE]]

\* errorToJson  (lines 40-45)
errorToJson(e) ==
  LET named == <<"name", "message", "stack", CUSTOM_ERROR_KEY>>
      errorProps == Rest(e, Elems(named))
      picked == Literal(named, [i \in 1..Len(named) |-> Get(e, named[i])])
  IN  Assign(Assign(<<>>, ensureProperties(errorProps)), ensureProperties(picked))

\* `new Error('')`  (line 11)
NewError ==
  << [key |-> "stack", value |-> <<"Error\n    at jsonToError">>, enumerable |-> FALSE],
     [key |-> "message", value |-> <<"">>, enumerable |-> FALSE] >>

RECURSIVE assignErrorPropsFrom(_, _, _)
\* assignErrorProps  (lines 23-27), from the i-th of ERROR_PROPS on
assignErrorPropsFrom(err, values, i) ==
  IF i > Len(ERROR_PROPS) THEN err
  ELSE assignErrorPropsFrom(
         DefineProperty(err, ERROR_PROPS[i], GetOwn(values, ERROR_PROPS[i]), FALSE),
         values, i + 1)
assignErrorProps(err, values) == assignErrorPropsFrom(err, values, 1)

\* jsonToError  (lines 9-20)
jsonToError(j) ==
  LET named == <<"name", "message", "stack">>
      errorProps == Rest(j, Elems(named))
      values == Literal(named, [i \in 1..Len(named) |-> GetOwn(j, named[i])])
  IN  Assign(assignErrorProps(NewError, values), errorProps)

\* the errors looked at: an Error with message and stack, with or without an
\* own name, a customErrorInfo property and a static property `code`
PropertyChoices(key) ==
  {<<>>} \cup {<<[key |-> key, value |-> v, enumerable |-> b]>> :
                 v \in StaticValues, b \in BOOLEAN}
Errors ==
  {<< [key |-> "stack", value |-> <<"BuildError: boom\n    at build">>, enumerable |-> FALSE],
      [key |-> "message", value |-> <<"boom">>, enumerable |-> FALSE] >> \o n \o c \o p :
     n \in {<<>>} \cup {<<[key |-> "name", value |-> <<"BuildError">>, enumerable |-> b]>> :
                          b \in BOOLEAN},
     c \in PropertyChoices(CUSTOM_ERROR_KEY),
     p \in PropertyChoices("code")}

besidesErrors == <<projectVars, buildSystemVars, relevanceVars, integrationVars>>

InitErrors ==
  /\ InitProject /\ pmFound = Null /\ wsFound = Null
  /\ IdleBuildSystems /\ IdleRelevance /\ IdleIntegrations
  /\ error \in Errors
  /\ json = <<>>
  /\ rebuilt = <<>>
  /\ errPc = "thrown"

\* the child process turns the error into the payload
Serialize ==
  /\ errPc = "thrown"
  /\ json' = errorToJson(error)
  /\ errPc' = "serialized"
  /\ UNCHANGED <<error, rebuilt, besidesErrors>>

\* the parent process rebuilds the error from the payload
Rebuild ==
  /\ errPc = "serialized"
  /\ rebuilt' = jsonToError(json)
  /\ errPc' = "rebuilt"
  /\ UNCHANGED <<error, json, besidesErrors>>

NextErrors == Serialize \/ Rebuild

SpecErrors == InitErrors /\ [][NextErrors]_vars

\* the own static properties of an error that have a value
StaticProperties(obj) ==
  {<<obj[i].key, obj[i].value>> : i \in
     {k \in 1..Len(obj) : /\ obj[k].key \notin {"name", "message", "stack"}
                          /\ obj[k].value # Undefined}}
NotEnumerable(obj, key) ==
  \A i \in 1..Len(obj) : obj[i].key = key => ~obj[i].enumerable
SameError ==
  /\ \A key \in {"name", "message", "stack"} :
       Get(rebuilt, key) = Get(error, key) /\ NotEnumerable(rebuilt, key)
  /\ StaticProperties(rebuilt) = StaticProperties(error)
JsonSafe(value) == value \notin {Circular, DateValue}
StaticsAreJsonData ==
  \A i \in 1..Len(error) :
    error[i].key \notin {"name", "message", "stack"}
      => (error[i].enumerable /\ JsonSafe(error[i].value))

====
